---------------------------- MODULE Spec2Model ----------------------------
(***************************************************************************)
(* A model of tredis, an asynchronous Redis client for Tornado.            *)
(*                                                                         *)
(*   - the hash-slot function (tredis.crc16, used by client.py) and the    *)
(*     RESP encoder (Client._encode_resp), as operators over byte          *)
(*     sequences;                                                          *)
(*   - the command execution engine of tredis/client.py (Client and        *)
(*     _Connection): connect, SELECT, cluster discovery, the execution     *)
(*     lock, MOVED re-dispatch, READONLY failover, close notification;     *)
(*   - the pooled client of tredis/__init__.py (RedisClient, Connection):  *)
(*     the command pipeline.                                               *)
(*                                                                         *)
(* The IOLoop is a queue of callbacks, run in the order they were added;   *)
(* each callback is one action, enabled when it is at the head of the      *)
(* queue.  Socket events (a connect completing, a reply arriving, the far  *)
(* end closing) and the callers' calls happen at any time and add their    *)
(* callbacks to the queue.  The stream hands one reply to each read.       *)
(***************************************************************************)
EXTENDS Integers, Sequences, FiniteSets, TLC

(***************************************************************************)
(* Bounds of the model.                                                    *)
(***************************************************************************)
MaxKeyLen == 3
MaxCmds == 2
MaxConns == 3
MaxMoves == 2
NumNodes == 2
MaxCloses == 1
MaxCloseErrors == 1
MaxFaults == 1
MaxBatch == 3
MaxStarts == 2
MaxExecutes == 2
MaxInt == 3

(***************************************************************************)
(* Program constants.                                                      *)
(***************************************************************************)
HASH_SLOTS == 16384
DEFAULT_DB == 0
Crc16Poly == 4129
Crc16Mask == 65535
Crc16TopBit == 32768

(***************************************************************************)
(* Bytes and byte strings.                                                 *)
(***************************************************************************)
CR == 13
LF == 10
Dollar == 36
AsciiZero == 48
CRLF == <<CR, LF>>

RECURSIVE BitXor(_, _, _)
BitXor(a, b, n) ==
  IF n = 0 THEN 0
  ELSE (((a % 2) + (b % 2)) % 2) + 2 * BitXor(a \div 2, b \div 2, n - 1)

(* One shift of the 16-bit register, MSB first. *)
Crc16Shift(crc) ==
  IF crc >= Crc16TopBit
    THEN BitXor((crc * 2) % (Crc16Mask + 1), Crc16Poly, 16)
    ELSE (crc * 2) % (Crc16Mask + 1)

(* The 256-entry table of the polynomial: entry x is the register after    *)
(* the byte x has been shifted through an empty register.                  *)
Crc16Table ==
  [x \in 0 .. 255 |->
     Crc16Shift(Crc16Shift(Crc16Shift(Crc16Shift(
       Crc16Shift(Crc16Shift(Crc16Shift(Crc16Shift(x * 256))))))))]

(* Crc16Byte as it would be with the reflected (LSB-first) use of the      *)
(* table.                                                                  *)
Crc16ByteReflected(crc, byte) ==
  BitXor(crc \div 256, Crc16Table[BitXor(crc % 256, byte, 8)], 16)

(* The register after one more input byte. *)
Crc16Byte(crc, byte) ==
  BitXor((crc % 256) * 256, Crc16Table[BitXor(crc \div 256, byte, 8)], 16)

RECURSIVE Crc16From(_, _, _)
Crc16From(crc, bytes, i) ==
  IF i > Len(bytes) THEN crc ELSE Crc16From(Crc16Byte(crc, bytes[i]), bytes, i + 1)

(* crc16.crc16(value) *)
Crc16(bytes) == Crc16From(0, bytes, 1)

(* ascii(n).encode('ascii') for n >= 0 *)
RECURSIVE AsciiDecimal(_)
AsciiDecimal(n) ==
  IF n < 10 THEN <<AsciiZero + n>>
  ELSE AsciiDecimal(n \div 10) \o <<AsciiZero + (n % 10)>>

(* Client._encode_resp of one bytes value: $<len>\r\n<bytes>\r\n *)
EncodeBulk(bytes) == <<Dollar>> \o AsciiDecimal(Len(bytes)) \o CRLF \o bytes \o CRLF

(* Client._pick_cluster_host, line 680: the slot node selection uses. *)
PickSlot(key) == Crc16(EncodeBulk(key)) % HASH_SLOTS

(***************************************************************************)
(* The command execution engine: tredis/client.py.                         *)
(***************************************************************************)
VARIABLES
  hash,        \* a crc16 / slot computation in progress
  rc,          \* the pooled RedisClient and its pipeline
  ev,          \* a reply being turned into the result of a future
  ar,          \* an array reply being read by the pooled RedisClient
  pl,          \* the connection pool of the pooled RedisClient
  clustering,  \* Client._clustering
  hasOnClose,  \* Client._on_close_callback is set
  cl,          \* the Client object
  conns,       \* the _Connection objects, their streams and the far ends
  cmd,         \* the commands and their futures
  loop,        \* the callbacks the IOLoop holds, in the order it runs them
  env          \* what the callers and the network have done so far

fixed == <<hash, rc, ev, ar, pl, clustering, hasOnClose>>

Nodes == 1 .. NumNodes
ConnIds == 1 .. MaxConns

(* hosts[0]: the configured endpoint. *)
SeedNode == 1
HostDb == 1

(* Request ids: the CLUSTER NODES command of the discovery, the callers'   *)
(* commands, the SELECT that Client._on_connected executes on connection k *)
(* and the INFO REPLICATION that Client._on_read_only_error executes for   *)
(* the caller's command i.                                                 *)
NodesId == 0
Callers == 1 .. MaxCmds
SelOf(k) == MaxCmds + k
InfoOf(i) == MaxCmds + MaxConns + i
SelIds == {SelOf(k) : k \in ConnIds}
InfoIds == {InfoOf(i) : i \in Callers}
Ids == 0 .. (MaxCmds + MaxConns + MaxCmds)
NoReq == 0 - 1

KeyB == <<98>>
KeyC == <<99>>
KeyNodes == <<78, 79, 68, 69, 83>>
Keys == {KeyB, KeyC}

(* The key of a command that has one token only, such as PING: parts[1]    *)
(* does not exist.                                                         *)
NoKey == <<0 - 1>>

(* A second token of a type _encode_resp has no branch for, such as None. *)
BadValue == <<0 - 2>>

NoRes == [t |-> "none", n |-> 0]

(* The slot ranges a CLUSTER NODES reply can list for a node, and whether  *)
(* the node is flagged slave; a node with listed = FALSE has no line.      *)
NotListed == [listed |-> FALSE, slots |-> {}, slave |-> FALSE]
TopoSplit ==
  [n \in Nodes |->
     IF n = 1 THEN [listed |-> TRUE, slots |-> {<<0, 8191>>}, slave |-> FALSE]
     ELSE IF n = 2 THEN [listed |-> TRUE, slots |-> {<<8192, 16383>>}, slave |-> FALSE]
     ELSE NotListed]
TopoSeedOnly ==
  [n \in Nodes |->
     IF n = 1 THEN [listed |-> TRUE, slots |-> {<<0, 8191>>}, slave |-> FALSE]
     ELSE NotListed]
TopoReplica ==
  [n \in Nodes |->
     IF n = 1 THEN [listed |-> TRUE, slots |-> {<<0, 16383>>}, slave |-> FALSE]
     ELSE IF n = 2 THEN [listed |-> TRUE, slots |-> {}, slave |-> TRUE]
     ELSE NotListed]
Topologies == <<TopoSplit, TopoSeedOnly, TopoReplica>>

(* _Connection.__init__; host 0 marks an object that does not exist yet.   *)
(* sock is the stream: "none" (_stream is None), "open" or "closed"; tcp   *)
(* is the TCP connect in progress, for Client ("client") or for            *)
(* _Connection.execute ("exec", with the command in tcpReq); wire holds    *)
(* the requests written and not yet answered; rcb is the command whose     *)
(* read callback is set on the stream; closes counts the calls of          *)
(* _Connection.close(); how tells who closed the stream last: the far end  *)
(* ("lost") or the client ("closed").                                      *)
NewConn == [host |-> 0, db |-> 0, connected |-> FALSE, sock |-> "none",
            tcp |-> "idle", tcpReq |-> NoReq, readOnly |-> FALSE,
            slots |-> {}, closes |-> 0, how |-> "", wire |-> <<>>,
            rcb |-> NoReq]

(* A command and its future: pc is where the command is, conn the          *)
(* connection it is bound to, moves the MOVED re-dispatches so far, moved  *)
(* the node the last MOVED reply named, res the result of the future,      *)
(* writes the connections it was written to, late whether it was issued    *)
(* after Client._connection had been closed.                               *)
NewCmd == [pc |-> "new", key |-> <<>>, conn |-> 0, moves |-> 0, moved |-> 0,
           res |-> NoRes, writes |-> <<>>, late |-> FALSE]

(* Client.__init__ *)
NewClient == [closing |-> FALSE, cluster |-> [n \in Nodes |-> 0],
              connectedEv |-> FALSE, evWaiters |-> <<>>,
              connectFuture |-> "pending", retry |-> NoReq, connection |-> 0,
              discovery |-> FALSE, locked |-> FALSE, lockWaiters |-> <<>>]

NewEnv == [connectCalled |-> FALSE, closeCalls |-> 0, faults |-> 0,
           onCloseCalls |-> 0, closeRaised |-> 0]

EngineInit ==
  /\ hasOnClose \in BOOLEAN
  /\ cl = NewClient
  /\ conns = [k \in ConnIds |-> NewConn]
  /\ cmd = [i \in Ids |-> NewCmd]
  /\ loop = <<>>
  /\ env = NewEnv

(* A callback on the IOLoop: t names it, k is its connection, i its        *)
(* command, r and m the reply or the outcome it was scheduled with.        *)
Cb(t, k, i, r, m) == [t |-> t, k |-> k, i |-> i, r |-> r, m |-> m]

(* The state the callbacks work on, and its update. *)
St == [cl |-> cl, conns |-> conns, cmd |-> cmd, loop |-> loop]

Becomes(st) ==
  /\ cl' = st.cl
  /\ conns' = st.conns
  /\ cmd' = st.cmd
  /\ loop' = st.loop

(* The callback the IOLoop runs next is of kind t. *)
Runs(t) == loop # <<>> /\ Head(loop).t = t

Popped == [St EXCEPT !.loop = Tail(@)]

NConn == Cardinality({k \in ConnIds : conns[k].host # 0})

(* Client.ready, for a client object c and connections cn. *)
ReadyWith(c, cn) ==
  IF clustering
    THEN /\ \A n \in Nodes : c.cluster[n] # 0 => cn[c.cluster[n]].connected
         /\ \E n \in Nodes : c.cluster[n] # 0
    ELSE c.connection # 0 /\ cn[c.connection].connected

Ready == ReadyWith(cl, conns)

InRange(slot, ranges) == \E r \in ranges : r[1] <= slot /\ slot <= r[2]

Known == {n \in Nodes : cl.cluster[n] # 0}

Owners(slot) == {n \in Known : InRange(slot, conns[cl.cluster[n]].slots)}

Min(S) == CHOOSE x \in S : \A y \in S : x <= y

(* Client._pick_cluster_host: the connection of the first node with a slot *)
(* range holding the slot, or else of the first node name in sorted order. *)
PickClusterHost(key) ==
  IF Owners(PickSlot(key)) # {}
    THEN cl.cluster[Min(Owners(PickSlot(key)))]
    ELSE cl.cluster[Min(Known)]

(* The callbacks a future has when it is resolved, in the order they were  *)
(* added: the lock release of _execute, then _on_cluster_discovery for     *)
(* CLUSTER NODES; on_selected for SELECT; on_replication_info for INFO.    *)
DoneCallbacks(i) ==
  IF i = NodesId
    THEN <<Cb("release", 0, i, "", 0), Cb("discovery", 0, i, "", 0)>>
  ELSE IF i \in Callers THEN <<Cb("release", 0, i, "", 0)>>
  ELSE IF i \in SelIds THEN <<Cb("selected", i - MaxCmds, i, "", 0)>>
  ELSE <<Cb("replinfo", 0, i - (MaxCmds + MaxConns), "", 0)>>

(* future.set_result / future.set_exception on the future of command i. *)
Resolve(st, i, res) ==
  [st EXCEPT !.cmd[i].pc = "done", !.cmd[i].res = res,
             !.loop = @ \o DoneCallbacks(i)]

(* _Connection._write(command, future): the command goes on the wire and   *)
(* on_written is scheduled; a stream that is closed or None raises, and    *)
(* the future fails with ConnectionError.                                  *)
Write(st, i, k) ==
  IF st.conns[k].sock = "open"
    THEN [st EXCEPT !.conns[k].wire = Append(@, i),
                    !.cmd[i].pc = "written", !.cmd[i].conn = k,
                    !.cmd[i].writes = Append(@, k),
                    !.loop = Append(@, Cb("written", k, i, "", 0))]
    ELSE Resolve([st EXCEPT !.cmd[i].conn = k], i,
                 [t |-> "ConnectionError", n |-> 0])

(* _Connection.execute(command, future) on connection k: written when the  *)
(* connection is connected, after a connect when it is not.                *)
ExecuteOn(st, i, k) ==
  IF st.conns[k].connected
    THEN Write(st, i, k)
    ELSE [st EXCEPT !.conns[k].tcp = "exec", !.conns[k].tcpReq = i,
                    !.cmd[i].pc = "tcp", !.cmd[i].conn = k]

(* Acquire as it would be if the lock were granted whether held or not.    *)
AcquireUnlocked(st, i) ==
  [st EXCEPT !.cl.locked = TRUE, !.cmd[i].pc = "granted",
             !.loop = Append(@, Cb("locked", 0, i, "", 0))]

(* self._busy.acquire() for command i with on_locked as callback: granted  *)
(* at once when the lock is free, queued when not.                         *)
Acquire(st, i) ==
  IF st.cl.locked
    THEN [st EXCEPT !.cl.lockWaiters = Append(@, i), !.cmd[i].pc = "lockwait"]
    ELSE [st EXCEPT !.cl.locked = TRUE, !.cmd[i].pc = "granted",
                    !.loop = Append(@, Cb("locked", 0, i, "", 0))]

(* Client._execute after the command is built: wait for the _connected     *)
(* event when the client is neither ready nor connected, else acquire the  *)
(* lock.                                                                   *)
StartExecute(st, i) ==
  IF ~ReadyWith(st.cl, st.conns) /\ ~st.cl.connectedEv
    THEN [st EXCEPT !.cl.evWaiters = Append(@, i), !.cmd[i].pc = "evwait"]
    ELSE Acquire(st, i)

(* Client._connected.set(): the callback of every waiter is scheduled, in  *)
(* the order they waited.                                                  *)
SetEvent(st) ==
  [st EXCEPT !.cl.connectedEv = TRUE, !.cl.evWaiters = <<>>,
             !.cmd = [i \in Ids |->
                        IF \E j \in 1 .. Len(st.cl.evWaiters) : st.cl.evWaiters[j] = i
                          THEN [st.cmd[i] EXCEPT !.pc = "acq"] ELSE st.cmd[i]],
             !.loop = @ \o [j \in 1 .. Len(st.cl.evWaiters) |->
                              Cb("acq", 0, st.cl.evWaiters[j], "", 0)]]

(* Client._connect_future is resolved: the retry that a failover added to  *)
(* it is scheduled.                                                        *)
ResolveConnect(st, how) ==
  IF st.cl.retry = NoReq
    THEN [st EXCEPT !.cl.connectFuture = how]
    ELSE [st EXCEPT !.cl.connectFuture = how, !.cl.retry = NoReq,
                    !.loop = Append(@, Cb("retry", 0, st.cl.retry, "", 0))]

(* IOStream.close() on the stream of connection k, or its close by the far *)
(* end: the pending read callback is dropped, its command ends as how, and *)
(* the close callback is scheduled.                                        *)
StreamClose(st, k, how) ==
  IF st.conns[k].sock = "open"
    THEN [st EXCEPT !.conns[k].sock = "closed", !.conns[k].wire = <<>>,
                    !.conns[k].rcb = NoReq, !.conns[k].how = how,
                    !.cmd = IF st.conns[k].rcb = NoReq THEN st.cmd
                            ELSE [st.cmd EXCEPT ![st.conns[k].rcb].pc = how],
                    !.loop = Append(@, Cb("closed", k, NoReq, "", 0))]
    ELSE st

(* Client.connect() *)
Connect ==
  /\ ~env.connectCalled
  /\ NConn < MaxConns
  /\ env' = [env EXCEPT !.connectCalled = TRUE]
  /\ cl' = [cl EXCEPT !.connectFuture = "pending", !.retry = NoReq]
  /\ conns' = [conns EXCEPT ![NConn + 1] =
                 [NewConn EXCEPT !.host = SeedNode, !.db = HostDb, !.tcp = "client"]]
  /\ UNCHANGED <<fixed, cmd, loop>>

(* The TCP connect of connection k succeeds: the stream future has a       *)
(* result and its callback is scheduled.                                   *)
TcpUp(k) ==
  /\ conns[k].tcp \in {"client", "exec"}
  /\ conns' = [conns EXCEPT ![k].tcp = "idle", ![k].tcpReq = NoReq]
  /\ loop' = Append(loop, Cb("stream", k, conns[k].tcpReq, "up", 0))
  /\ UNCHANGED <<fixed, cl, cmd, env>>

(* The TCP connect of connection k fails. *)
TcpFail(k) ==
  /\ conns[k].tcp \in {"client", "exec"}
  /\ env.faults < MaxFaults
  /\ env' = [env EXCEPT !.faults = @ + 1]
  /\ conns' = [conns EXCEPT ![k].tcp = "idle", ![k].tcpReq = NoReq]
  /\ loop' = Append(loop, Cb("stream", k, conns[k].tcpReq, "fail", 0))
  /\ UNCHANGED <<fixed, cl, cmd>>

(* _Connection._on_connected(stream_future, connect_future): on success    *)
(* the stream is kept and the connection is connected; the connect future  *)
(* is resolved either way, which schedules its callback.                   *)
StreamConnected ==
  /\ Runs("stream")
  /\ LET cb == Head(loop)
         st == IF cb.r = "up"
                 THEN [Popped EXCEPT !.conns[cb.k].sock = "open",
                                     !.conns[cb.k].connected = TRUE]
                 ELSE Popped
     IN Becomes([st EXCEPT !.loop = Append(@, Cb("connected", cb.k, cb.i, cb.r, 0))])
  /\ UNCHANGED <<fixed, env>>

(* Client._on_connected(future), the connection future has an exception. *)
ClientOnConnectFailed ==
  /\ Runs("connected")
  /\ Head(loop).i = NoReq
  /\ Head(loop).r = "fail"
  /\ Becomes(ResolveConnect(Popped, "err"))
  /\ UNCHANGED <<fixed, env>>

(* Client._on_connected(future) in cluster mode: the connection enters the *)
(* table; before the discovery, CLUSTER NODES is executed; after it, the   *)
(* client is declared connected once every connection of the table is.     *)
ClusterOnConnected ==
  /\ clustering
  /\ Runs("connected")
  /\ Head(loop).i = NoReq
  /\ Head(loop).r = "up"
  /\ LET k == Head(loop).k
         st == [Popped EXCEPT !.cl.cluster[conns[k].host] = k]
     IN IF ~cl.discovery
          THEN Becomes(StartExecute(
                 [st EXCEPT !.cmd[NodesId] = [NewCmd EXCEPT !.key = KeyNodes]],
                 NodesId))
          ELSE IF ReadyWith(st.cl, st.conns)
            THEN Becomes(SetEvent(IF cl.connectFuture = "pending"
                                    THEN ResolveConnect(st, "ok") ELSE st))
            ELSE Becomes(st)
  /\ UNCHANGED <<fixed, env>>

(* Client._on_connected(future) outside cluster mode: the connection       *)
(* becomes Client._connection and SELECT <db> is executed on it.           *)
SingleOnConnected ==
  /\ ~clustering
  /\ Runs("connected")
  /\ Head(loop).i = NoReq
  /\ Head(loop).r = "up"
  /\ LET k == Head(loop).k
     IN Becomes(ExecuteOn([Popped EXCEPT !.cl.connection = k,
                                         !.cmd[SelOf(k)] = NewCmd],
                          SelOf(k), k))
  /\ UNCHANGED <<fixed, env>>

(* _Connection.execute.on_connected: the callback of the connect that      *)
(* execute started; the command is written, or its future fails with the   *)
(* connect's exception.                                                    *)
ExecOnConnected ==
  /\ Runs("connected")
  /\ Head(loop).i # NoReq
  /\ LET cb == Head(loop)
     IN IF cb.r = "fail"
          THEN Becomes(Resolve(Popped, cb.i, [t |-> "ConnectError", n |-> 0]))
          ELSE Becomes(Write(Popped, cb.i, cb.k))
  /\ UNCHANGED <<fixed, env>>

(* Outside cluster mode, the stream of Client._connection has been closed, *)
(* by the far end or by close(), and not opened again.                     *)
PostClose ==
  /\ ~clustering
  /\ cl.connection # 0
  /\ conns[cl.connection].sock # "open"
  /\ conns[cl.connection].how # ""

(* Execute as it would be if the command were not built before the lock is *)
(* asked for.                                                              *)
ExecuteUnbuilt(c, key) ==
  /\ c \in Callers
  /\ cmd[c].pc = "new"
  /\ c = 1 \/ cmd[c - 1].pc # "new"
  /\ Becomes(StartExecute([St EXCEPT !.cmd[c].key = key,
                                     !.cmd[c].late = PostClose], c))
  /\ UNCHANGED <<fixed, env>>

(* Client._execute(parts) called by a caller, with parts[1] = key: when    *)
(* _build_command raises ValueError the future fails with it and is        *)
(* returned, before the lock is asked for and the release is added.        *)
Execute(c, key) ==
  /\ c \in Callers
  /\ cmd[c].pc = "new"
  /\ c = 1 \/ cmd[c - 1].pc # "new"
  /\ IF key = BadValue
       THEN Becomes([St EXCEPT !.cmd[c].key = key, !.cmd[c].pc = "rejected",
                               !.cmd[c].res = [t |-> "ValueError", n |-> 0]])
       ELSE Becomes(StartExecute([St EXCEPT !.cmd[c].key = key,
                                            !.cmd[c].late = PostClose], c))
  /\ UNCHANGED <<fixed, env>>

(* The callback of Client._connected.wait() in _execute: _busy.acquire(). *)
EvWaiterAcquire ==
  /\ Runs("acq")
  /\ Becomes(Acquire(Popped, Head(loop).i))
  /\ UNCHANGED <<fixed, env>>

(* Client._execute.on_locked: the connection the command is bound to. *)
TargetConn(i) == IF clustering THEN PickClusterHost(cmd[i].key) ELSE cl.connection

(* Client._execute.on_locked: the command is executed on its connection    *)
(* when the client is ready, and dropped with the lock held when not; in   *)
(* cluster mode _pick_cluster_host reads parts[1], which raises IndexError *)
(* out of the callback for a command of one token.                         *)
OnLocked ==
  /\ Runs("locked")
  /\ LET i == Head(loop).i
     IN IF Ready
          THEN IF clustering /\ cmd[i].key = NoKey
                 THEN Becomes([Popped EXCEPT !.cmd[i].pc = "dead"])
                 ELSE Becomes(ExecuteOn(Popped, i, TargetConn(i)))
          ELSE Becomes([Popped EXCEPT !.cmd[i].pc = "aborted"])
  /\ UNCHANGED <<fixed, env>>

(* _Connection._write.on_written -> Client._read: the reader holds no      *)
(* reply, so a read is issued on the command's connection; the stream      *)
(* refuses a second pending read, and a read on a closed or missing stream *)
(* raises: the callback ends there with the future unresolved.             *)
OnWritten ==
  /\ Runs("written")
  /\ LET k == Head(loop).k
         i == Head(loop).i
     IN IF conns[k].sock = "open"
          THEN IF conns[k].rcb = NoReq
                 THEN Becomes([Popped EXCEPT !.conns[k].rcb = i,
                                             !.cmd[i].pc = "reading"])
                 ELSE Becomes([Popped EXCEPT !.cmd[i].pc = "dead"])
          ELSE Becomes([Popped EXCEPT !.cmd[i].pc = conns[k].how])
  /\ UNCHANGED <<fixed, env>>

(* The stream of connection k can deliver a reply: the server answers the  *)
(* requests in the order written, and the data goes to the command whose   *)
(* read callback is set, whichever request it answers.                     *)
CanReply(k) ==
  /\ conns[k].sock = "open"
  /\ conns[k].rcb # NoReq
  /\ conns[k].wire # <<>>

(* The reply is the one to the reading command's own request. *)
Aligned(k) == CanReply(k) /\ Head(conns[k].wire) = conns[k].rcb

(* The reply r, with value m, to the first request on the wire of          *)
(* connection k arrives: the read callback is scheduled with it.           *)
Deliver(k, r, m) ==
  /\ conns' = [conns EXCEPT ![k].wire = Tail(@), ![k].rcb = NoReq]
  /\ loop' = Append(loop, Cb("data", k, conns[k].rcb, r, m))
  /\ UNCHANGED <<fixed, cl, cmd, env>>

(* The server answers a caller's command or SELECT with a value. *)
ReplyOk(k) ==
  /\ CanReply(k)
  /\ Head(conns[k].wire) \in Callers \cup SelIds
  /\ Deliver(k, "ok", 0)

(* The server answers with an error that is neither MOVED nor READONLY. *)
ReplyErr(k) ==
  /\ CanReply(k)
  /\ Deliver(k, "err", 0)

(* A cluster node answers a caller's command with MOVED <slot> <node m>. *)
ReplyMoved(k, m) ==
  /\ clustering
  /\ Aligned(k)
  /\ conns[k].rcb \in Callers
  /\ cmd[conns[k].rcb].moves < MaxMoves
  /\ Deliver(k, "moved", m)

(* The server answers a caller's command with READONLY. *)
ReplyReadOnly(k) ==
  /\ Aligned(k)
  /\ conns[k].rcb \in Callers
  /\ clustering \/ NConn < MaxConns
  /\ Deliver(k, "readonly", 0)

(* The server answers CLUSTER NODES with the node list t. *)
ReplyNodes(k, t) ==
  /\ Aligned(k)
  /\ conns[k].rcb = NodesId
  /\ Deliver(k, "nodes", t)

(* The server answers INFO REPLICATION: master_host is node m, or there is *)
(* no master_host (m = 0).                                                 *)
ReplyInfo(k, m) ==
  /\ Aligned(k)
  /\ conns[k].rcb \in InfoIds
  /\ Deliver(k, "info", m)

(* Client._read with a reply that is not an error: the future is resolved, *)
(* through the command's format callback if it has one; format_response    *)
(* raises on the reply to another request, and format_info_response finds  *)
(* no master_host in it.                                                   *)
ReadOk ==
  /\ Runs("data")
  /\ Head(loop).r = "ok"
  /\ LET cb == Head(loop)
     IN IF cb.i = NodesId
          THEN Becomes([Popped EXCEPT !.cmd[cb.i].pc = "dead"])
          ELSE IF cb.i \in InfoIds
            THEN Becomes(Resolve(Popped, cb.i, [t |-> "info", n |-> 0]))
            ELSE Becomes(Resolve(Popped, cb.i, [t |-> "ok", n |-> conns[cb.k].host]))
  /\ UNCHANGED <<fixed, env>>

(* ReadErr as it would be if the command were executed again on its        *)
(* connection.                                                             *)
ReadErrRetry ==
  /\ Runs("data")
  /\ Head(loop).r = "err"
  /\ Becomes(ExecuteOn(Popped, Head(loop).i, Head(loop).k))
  /\ UNCHANGED <<fixed, env>>

(* Client._read with an error reply that is neither MOVED nor READONLY. *)
ReadErr ==
  /\ Runs("data")
  /\ Head(loop).r = "err"
  /\ Becomes(Resolve(Popped, Head(loop).i,
                     [t |-> "RedisError", n |-> conns[Head(loop).k].host]))
  /\ UNCHANGED <<fixed, env>>

(* MovedConn as it would be if the command stayed on the connection that   *)
(* answered MOVED.                                                         *)
MovedConnSame(k, m) == IF cl.cluster[m] = 0 THEN 0 ELSE k

(* Client._on_cluster_data_moved: the connection of the node a MOVED reply *)
(* names, 0 when the table has none.                                       *)
MovedConn(k, m) == cl.cluster[m]

(* Client._read -> Client._on_cluster_data_moved: the command is executed  *)
(* on the connection of node m with the same future; an unknown node       *)
(* raises ConnectionError out of the read callback and the future stays    *)
(* unresolved.                                                             *)
ReadMoved ==
  /\ Runs("data")
  /\ Head(loop).r = "moved"
  /\ LET cb == Head(loop)
     IN IF MovedConn(cb.k, cb.m) = 0
          THEN Becomes([Popped EXCEPT !.cmd[cb.i].pc = "dead",
                                      !.cmd[cb.i].moved = cb.m])
          ELSE Becomes(ExecuteOn([Popped EXCEPT !.cmd[cb.i].moves = @ + 1,
                                                !.cmd[cb.i].moved = cb.m],
                                 cb.i, MovedConn(cb.k, cb.m)))
  /\ UNCHANGED <<fixed, env>>

(* Client._read -> Client._on_read_only_error in cluster mode: the call of *)
(* command.connection.set_readonly raises AttributeError.                  *)
ReadOnlyCluster ==
  /\ clustering
  /\ Runs("data")
  /\ Head(loop).r = "readonly"
  /\ Becomes([Popped EXCEPT !.cmd[Head(loop).i].pc = "dead"])
  /\ UNCHANGED <<fixed, env>>

(* Client._read -> Client._on_read_only_error outside cluster mode: INFO   *)
(* REPLICATION is executed on Client._connection.                          *)
ReadOnlySingle ==
  /\ ~clustering
  /\ Runs("data")
  /\ Head(loop).r = "readonly"
  /\ LET i == Head(loop).i
     IN Becomes(ExecuteOn([Popped EXCEPT !.cmd[i].pc = "failover",
                                         !.cmd[InfoOf(i)] = NewCmd],
                          InfoOf(i), cl.connection))
  /\ UNCHANGED <<fixed, env>>

(* Client._read with the reply to CLUSTER NODES: format_response gives the *)
(* node list.                                                              *)
ReadNodes ==
  /\ Runs("data")
  /\ Head(loop).r = "nodes"
  /\ Becomes(Resolve(Popped, Head(loop).i, [t |-> "nodes", n |-> Head(loop).m]))
  /\ UNCHANGED <<fixed, env>>

(* Client._read with the reply to INFO REPLICATION: format_info_response   *)
(* gives the replication status.                                           *)
ReadInfo ==
  /\ Runs("data")
  /\ Head(loop).r = "info"
  /\ Becomes(Resolve(Popped, Head(loop).i, [t |-> "info", n |-> Head(loop).m]))
  /\ UNCHANGED <<fixed, env>>

(* Client._on_connected.on_selected: the connect future takes the outcome  *)
(* of SELECT and the client is declared connected in either case.          *)
OnSelected ==
  /\ Runs("selected")
  /\ Becomes(SetEvent(ResolveConnect(
       Popped, IF cmd[Head(loop).i].res.t = "ok" THEN "ok" ELSE "err")))
  /\ UNCHANGED <<fixed, env>>

(* FailoverConn as it would be if the new connection took the default      *)
(* database.                                                               *)
FailoverConnDefaultDb(m, db) ==
  [NewConn EXCEPT !.host = m, !.db = DEFAULT_DB, !.tcp = "client"]

(* Client._on_read_only_error.on_replication_info: the _Connection to the  *)
(* master, with the database of the connection it replaces, connecting.    *)
FailoverConn(m, db) == [NewConn EXCEPT !.host = m, !.db = db, !.tcp = "client"]

(* Client._on_read_only_error.on_replication_info for the caller's command *)
(* i: a failed INFO raises; else the client is marked closing, the current *)
(* connection is closed (which raises when it has no stream), the event is *)
(* cleared and the connect future replaced; a reply without master_host    *)
(* raises; else Client._connection becomes a new connection to the master  *)
(* and the retry of the command is added to the connect future.            *)
OnReplicationInfo ==
  /\ Runs("replinfo")
  /\ LET i == Head(loop).i
         k == cl.connection
         info == cmd[InfoOf(i)].res
         closed == StreamClose([Popped EXCEPT !.cl.closing = TRUE,
                                              !.conns[k].closes = @ + 1],
                               k, "closed")
         cleared == [closed EXCEPT !.cl.connectedEv = FALSE,
                                   !.cl.connectFuture = "pending",
                                   !.cl.retry = NoReq]
     IN IF info.t # "info"
          THEN Becomes([Popped EXCEPT !.cmd[i].pc = "dead"])
          ELSE IF conns[k].sock = "none"
            THEN Becomes([Popped EXCEPT !.cl.closing = TRUE, !.cmd[i].pc = "dead"])
            ELSE IF info.n = 0
              THEN Becomes([cleared EXCEPT !.cmd[i].pc = "dead"])
              ELSE /\ NConn < MaxConns
                   /\ Becomes([cleared EXCEPT
                                 !.cl.connection = NConn + 1,
                                 !.cl.retry = i,
                                 !.cmd[i].pc = "retry",
                                 !.conns[NConn + 1] = FailoverConn(info.n, conns[k].db)])
  /\ UNCHANGED <<fixed, env>>

(* The callback on the connect future that on_replication_info added: the  *)
(* command is executed on Client._connection with its future.              *)
RetryAfterFailover ==
  /\ Runs("retry")
  /\ Becomes(ExecuteOn(Popped, Head(loop).i, cl.connection))
  /\ UNCHANGED <<fixed, env>>

(* The callback _execute added on the future: self._busy.release(); the    *)
(* lock goes to the first waiter, whose on_locked is scheduled.            *)
Release ==
  /\ Runs("release")
  /\ LET i == Head(loop).i
         st == [Popped EXCEPT !.cmd[i].pc = "released"]
     IN IF cl.lockWaiters = <<>>
          THEN Becomes([st EXCEPT !.cl.locked = FALSE])
          ELSE Becomes([st EXCEPT !.cl.lockWaiters = Tail(@),
                                  !.cmd[Head(cl.lockWaiters)].pc = "granted",
                                  !.loop = Append(@, Cb("locked", 0, Head(cl.lockWaiters), "", 0))])
  /\ UNCHANGED <<fixed, env>>

(* The nodes of node list t that have no connection in the table. *)
ToCreate(t) == {n \in Nodes : Topologies[t][n].listed /\ cl.cluster[n] = 0}

NewIdOf(t, n) == NConn + Cardinality({x \in ToCreate(t) : x <= n})

(* Client._on_cluster_discovery: a failed CLUSTER NODES raises; otherwise  *)
(* the connections of known nodes take the listed slots and flag, and a    *)
(* connection is created, and connected, for each other listed node.       *)
OnClusterDiscovery ==
  /\ Runs("discovery")
  /\ loop' = Tail(loop)
  /\ UNCHANGED <<fixed, cmd, env>>
  /\ IF cmd[NodesId].res.t # "nodes"
       THEN UNCHANGED <<cl, conns>>
       ELSE LET t == cmd[NodesId].res.n
                topo == Topologies[t]
            IN /\ NConn + Cardinality(ToCreate(t)) <= MaxConns
               /\ cl' = [cl EXCEPT !.discovery = TRUE]
               /\ conns' =
                    [k \in ConnIds |->
                       IF \E n \in Nodes : topo[n].listed /\ cl.cluster[n] = k
                         THEN [conns[k] EXCEPT
                                 !.slots = topo[conns[k].host].slots,
                                 !.readOnly = topo[conns[k].host].slave]
                       ELSE IF \E n \in ToCreate(t) : NewIdOf(t, n) = k
                         THEN LET n == CHOOSE x \in ToCreate(t) : NewIdOf(t, x) = k
                              IN [NewConn EXCEPT !.host = n, !.tcp = "client",
                                                 !.readOnly = topo[n].slave,
                                                 !.slots = topo[n].slots]
                       ELSE conns[k]]

(* The server end or the network closes the stream of connection k. *)
RemoteClose(k) ==
  /\ conns[k].sock = "open"
  /\ env.faults < MaxFaults
  /\ env' = [env EXCEPT !.faults = @ + 1]
  /\ Becomes(StreamClose(St, k, "lost"))
  /\ UNCHANGED fixed

(* _Connection._on_closed -> Client._on_closed, the stream's close         *)
(* callback: when the client is not closing and has no on_close callback,  *)
(* Client._on_closed raises and _stream is not reset.                      *)
ConnOnClosed ==
  /\ Runs("closed")
  /\ LET k == Head(loop).k
     IN Becomes([Popped EXCEPT
                   !.cl.connectedEv = FALSE,
                   !.conns[k].connected = FALSE,
                   !.conns[k].sock = IF cl.closing \/ hasOnClose THEN "none" ELSE "closed"])
  /\ env' = [env EXCEPT !.onCloseCalls = IF ~cl.closing /\ hasOnClose THEN @ + 1 ELSE @]
  /\ UNCHANGED fixed

(* The connections Client.close() closes: those of the table, or           *)
(* Client._connection.                                                     *)
Targets == IF clustering THEN {cl.cluster[n] : n \in Known}
           ELSE IF cl.connection = 0 THEN {} ELSE {cl.connection}

(* _Connection.close() on the connections K in turn; the first without a   *)
(* stream raises ConnectionError and ends the loop.                        *)
RECURSIVE CloseAll(_, _)
CloseAll(st, K) ==
  IF K = {} \/ st.conns[Min(K)].sock = "none" THEN st
  ELSE CloseAll(StreamClose([st EXCEPT !.conns[Min(K)].closes = @ + 1],
                            Min(K), "closed"),
                K \ {Min(K)})

(* Client.close() on a client whose _connected event is set. *)
Close ==
  /\ env.closeCalls < MaxCloses
  /\ cl.connectedEv
  /\ env' = [env EXCEPT !.closeCalls = @ + 1]
  /\ Becomes(CloseAll([St EXCEPT !.cl.closing = TRUE], Targets))
  /\ UNCHANGED fixed

(* CloseNotConnected as it would be if the client were marked closing      *)
(* before the event is tested.                                             *)
CloseNotConnectedClosing ==
  /\ env.closeRaised < MaxCloseErrors
  /\ ~cl.connectedEv
  /\ env' = [env EXCEPT !.closeRaised = @ + 1]
  /\ cl' = [cl EXCEPT !.closing = TRUE]
  /\ UNCHANGED <<fixed, conns, cmd, loop>>

(* Client.close() on a client whose _connected event is not set: it raises *)
(* ConnectionError before anything else.                                   *)
CloseNotConnected ==
  /\ env.closeRaised < MaxCloseErrors
  /\ ~cl.connectedEv
  /\ env' = [env EXCEPT !.closeRaised = @ + 1]
  /\ UNCHANGED <<fixed, cl, conns, cmd, loop>>

(***************************************************************************)
(* The hash slot of a key: crc16.crc16 and Client._pick_cluster_host       *)
(* applied to one input.                                                   *)
(***************************************************************************)
NoSlot == 0 - 1

(* The inputs of tests/crc16_tests.py that fit, and every key of up to     *)
(* MaxKeyLen bytes over HashBytes.                                         *)
Digits == <<49, 50, 51, 52, 53, 54, 55, 56, 57>>
Airplane == <<226, 156, 136>>
CrcOfDigits == 12739
CrcOfAirplane == 33623
HashBytes == {0, 98, 99, 255}

RECURSIVE SeqsUpTo(_, _)
SeqsUpTo(S, n) ==
  IF n = 0 THEN {<<>>}
  ELSE SeqsUpTo(S, n - 1) \cup
       {Append(q, x) : q \in {r \in SeqsUpTo(S, n - 1) : Len(r) = n - 1}, x \in S}

HashInputs == {Digits, Airplane} \cup SeqsUpTo(HashBytes, MaxKeyLen)

NewHash == [input |-> <<>>, pos |-> 0, crc |-> 0, slot |-> NoSlot]

HashStart == hash \in {[NewHash EXCEPT !.input = s] : s \in HashInputs}

(* crc16.crc16: the loop over the bytes of the input, one byte a step. *)
Crc16Step ==
  /\ hash.pos < Len(hash.input)
  /\ hash' = [hash EXCEPT !.pos = @ + 1,
                          !.crc = Crc16Byte(hash.crc, hash.input[hash.pos + 1])]
  /\ UNCHANGED <<rc, ev, ar, pl, clustering, hasOnClose, cl, conns, cmd, loop, env>>

(* Client._pick_cluster_host: the slot computed for the input as key. *)
PickSlotStep ==
  /\ hash.slot = NoSlot
  /\ hash' = [hash EXCEPT !.slot = PickSlot(hash.input)]
  /\ UNCHANGED <<rc, ev, ar, pl, clustering, hasOnClose, cl, conns, cmd, loop, env>>

(***************************************************************************)
(* The pipeline of the pooled client: tredis/__init__.py.                  *)
(***************************************************************************)
Processors == {"none", "is_ok", "int_is_1"}

(* RedisClient.__init__, and no pipeline_execute in progress: phase is the *)
(* position of pipeline_execute, batch the commands enqueued when it was   *)
(* called, sent the commands written, replies the kinds of the replies     *)
(* read, values the _PipelineResponses, result the result of its future;   *)
(* issued counts the command calls, direct lists the calls executed at     *)
(* once; mark is the number of command calls made before the last          *)
(* pipeline_start, batchMark that number for the pipeline_execute in       *)
(* progress.                                                               *)
NewRedisClient ==
  [pipeline |-> FALSE, pipelineCommands |-> <<>>, phase |-> "idle",
   batch |-> <<>>, sent |-> <<>>, replies |-> <<>>, values |-> <<>>,
   result |-> <<>>, error |-> "none", issued |-> 0, starts |-> 0,
   executes |-> 0, direct |-> <<>>, mark |-> 0, batchMark |-> 0]

PoolIdle == rc = NewRedisClient

(* RedisClient.pipeline_start() *)
PipelineStart ==
  /\ rc.starts < MaxStarts
  /\ rc' = [rc EXCEPT !.pipeline = TRUE, !.pipelineCommands = <<>>,
                      !.starts = @ + 1, !.mark = rc.issued]
  /\ UNCHANGED <<hash, ev, ar, pl, clustering, hasOnClose, cl, conns, cmd, loop, env>>

(* PipelineCommand as it would be if a command call were executed at once  *)
(* whether or not a pipeline is active.                                    *)
PipelineCommandDirect(p) ==
  /\ rc.issued < MaxBatch
  /\ rc' = [rc EXCEPT !.issued = @ + 1, !.direct = Append(@, rc.issued + 1)]
  /\ UNCHANGED <<hash, ev, ar, pl, clustering, hasOnClose, cl, conns, cmd, loop, env>>

(* A command call with response processor p: RedisClient._execute and the  *)
(* commands that call _pipeline_add themselves; the call is captured when  *)
(* a pipeline is active and executed at once when not.                     *)
PipelineCommand(p) ==
  /\ rc.issued < MaxBatch
  /\ rc' = IF rc.pipeline
             THEN [rc EXCEPT !.issued = @ + 1,
                             !.pipelineCommands =
                                Append(@, [id |-> rc.issued + 1, proc |-> p])]
             ELSE [rc EXCEPT !.issued = @ + 1, !.direct = Append(@, rc.issued + 1)]
  /\ UNCHANGED <<hash, ev, ar, pl, clustering, hasOnClose, cl, conns, cmd, loop, env>>

(* PipelineExecute as it would be without the check for an empty batch. *)
PipelineExecuteUnchecked ==
  /\ rc.phase \in {"idle", "done"}
  /\ rc.executes < MaxExecutes
  /\ rc' = [rc EXCEPT !.phase = "connecting", !.executes = @ + 1,
                      !.batchMark = rc.mark,
                      !.batch = rc.pipelineCommands, !.sent = <<>>,
                      !.replies = <<>>, !.values = <<>>, !.result = <<>>]
  /\ UNCHANGED <<hash, ev, ar, pl, clustering, hasOnClose, cl, conns, cmd, loop, env>>

(* RedisClient.pipeline_execute(): ValueError on an empty batch, else a    *)
(* connection is asked for.                                                *)
PipelineExecute ==
  /\ rc.phase \in {"idle", "done"}
  /\ rc.executes < MaxExecutes
  /\ rc' = IF rc.pipelineCommands = <<>>
             THEN [rc EXCEPT !.error = "ValueError", !.executes = @ + 1]
             ELSE [rc EXCEPT !.phase = "connecting", !.executes = @ + 1,
                             !.batchMark = rc.mark,
                             !.batch = rc.pipelineCommands, !.sent = <<>>,
                             !.replies = <<>>, !.values = <<>>, !.result = <<>>]
  /\ UNCHANGED <<hash, ev, ar, pl, clustering, hasOnClose, cl, conns, cmd, loop, env>>

(* pipeline_execute.on_connected: a failed connect fails the future; else  *)
(* _pipeline_execute(conn) writes the commands the batch holds now.        *)
PipelineOnConnected(ok) ==
  /\ rc.phase = "connecting"
  /\ rc' = IF ok
             THEN [rc EXCEPT !.phase = "written",
                             !.sent = [j \in 1 .. Len(rc.pipelineCommands) |->
                                         rc.pipelineCommands[j].id]]
             ELSE [rc EXCEPT !.phase = "failed", !.error = "ConnectError"]
  /\ UNCHANGED <<hash, ev, ar, pl, clustering, hasOnClose, cl, conns, cmd, loop, env>>

(* _pipeline_execute.on_written: the first reply is asked for. *)
PipelineOnWritten ==
  /\ rc.phase = "written"
  /\ rc' = [rc EXCEPT !.phase = "reading"]
  /\ UNCHANGED <<hash, ev, ar, pl, clustering, hasOnClose, cl, conns, cmd, loop, env>>

(* The entry _pipeline_execute.on_response appends for the reply, of kind  *)
(* "ok" or "err", to the command written at position Len(values) + 1: an   *)
(* error as it is, a value through the processor the batch holds now at    *)
(* that position.                                                          *)
PipelineEntry(r, kind) ==
  [of |-> r.sent[Len(r.values) + 1],
   how |-> IF kind = "err" THEN "error"
           ELSE r.pipelineCommands[Len(r.values) + 1].proc]

(* PipelineOnResponse as it would be if the completion left the pipeline   *)
(* active and the batch in place.                                          *)
PipelineOnResponseKeep(kind) ==
  /\ rc.phase = "reading"
  /\ Len(rc.values) < Len(rc.sent)
  /\ UNCHANGED <<hash, ev, ar, pl, clustering, hasOnClose, cl, conns, cmd, loop, env>>
  /\ IF kind = "ok" /\ Len(rc.values) >= Len(rc.pipelineCommands)
       THEN rc' = [rc EXCEPT !.phase = "dead", !.replies = Append(@, kind)]
       ELSE LET vals == Append(rc.values, PipelineEntry(rc, kind))
            IN IF Len(vals) = Len(rc.pipelineCommands)
                 THEN rc' = [rc EXCEPT !.phase = "done",
                                       !.replies = Append(@, kind),
                                       !.values = vals, !.result = vals]
                 ELSE rc' = [rc EXCEPT !.replies = Append(@, kind), !.values = vals]

(* _pipeline_execute.on_response, the server's next reply being read: the  *)
(* lookup of the processor raises IndexError when the batch has become     *)
(* shorter; the future is resolved when the responses are as many as the   *)
(* batch holds now, and another reply is asked for when not.               *)
PipelineOnResponse(kind) ==
  /\ rc.phase = "reading"
  /\ Len(rc.values) < Len(rc.sent)
  /\ UNCHANGED <<hash, ev, ar, pl, clustering, hasOnClose, cl, conns, cmd, loop, env>>
  /\ IF kind = "ok" /\ Len(rc.values) >= Len(rc.pipelineCommands)
       THEN rc' = [rc EXCEPT !.phase = "dead", !.replies = Append(@, kind)]
       ELSE LET vals == Append(rc.values, PipelineEntry(rc, kind))
            IN IF Len(vals) = Len(rc.pipelineCommands)
                 THEN rc' = [rc EXCEPT !.phase = "done", !.pipeline = FALSE,
                                       !.pipelineCommands = <<>>,
                                       !.replies = Append(@, kind),
                                       !.values = vals, !.result = vals]
                 ELSE rc' = [rc EXCEPT !.replies = Append(@, kind), !.values = vals]


(***************************************************************************)
(* The result of a command: Client._read and Client._eval_expectation      *)
(* applied to one reply.  A reply or an expectation is a number: an        *)
(* integer reply is itself, b'OK', any other bulk string and nil are the   *)
(* negative numbers below, and a command without expectation has           *)
(* NoExpectation (None).                                                   *)
(***************************************************************************)
BytesOK == 0 - 1
BytesOther == 0 - 2
Nil == 0 - 3
NoExpectation == 0 - 9

Replies == (0 .. MaxInt) \cup {BytesOK, BytesOther, Nil}
Expectations == (0 .. MaxInt) \cup {BytesOK, NoExpectation}
Transforms == {"none", "format"}

(* Results: a boolean (1 for True), the reply itself, or what the format   *)
(* callback made of the reply.                                             *)
Boolean(b) == <<"bool", IF b THEN 1 ELSE 0>>
Raw(r) == <<"raw", r>>
Transformed(r) == <<"transformed", r>>

(* Client._eval_expectation as it would be if every expectation gave a     *)
(* boolean.                                                                *)
EvalExpectationStrict(e, r) == Boolean(r = e)

(* Client._eval_expectation: response == expectation or response for an    *)
(* integer expectation above 1, response == expectation for any other.     *)
EvalExpectation(e, r) ==
  IF e > 1
    THEN IF r = e THEN Boolean(TRUE) ELSE Raw(r)
    ELSE Boolean(r = e)

(* Client._read for a reply that is not an error: the format callback when *)
(* the command has one, else the expectation when it has one, else the     *)
(* reply.                                                                  *)
ReadResult(xf, e, r) ==
  IF xf # "none" THEN Transformed(r)
  ELSE IF e # NoExpectation THEN EvalExpectation(e, r)
  ELSE Raw(r)

NewEval == [xf |-> "none", e |-> NoExpectation, r |-> Nil, done |-> FALSE,
            result |-> Raw(Nil)]

EvalStart ==
  ev \in {[NewEval EXCEPT !.xf = xf, !.e = e, !.r = r] :
            xf \in Transforms, e \in Expectations, r \in Replies}

(* Client._read: the future is resolved with the result for the reply. *)
EvalStep ==
  /\ ~ev.done
  /\ ev' = [ev EXCEPT !.done = TRUE, !.result = ReadResult(ev.xf, ev.e, ev.r)]
  /\ UNCHANGED <<hash, rc, ar, pl, clustering, hasOnClose, cl, conns, cmd, loop, env>>

(***************************************************************************)
(* The specifications.                                                     *)
(***************************************************************************)
vars == <<hash, rc, ev, ar, pl, clustering, hasOnClose, cl, conns, cmd, loop, env>>

EngineIdle ==
  /\ clustering = FALSE
  /\ hasOnClose = FALSE
  /\ cl = NewClient
  /\ conns = [k \in ConnIds |-> NewConn]
  /\ cmd = [i \in Ids |-> NewCmd]
  /\ loop = <<>>
  /\ env = NewEnv

(***************************************************************************)
(* An array reply read by the pooled RedisClient.  The count line has been  *)
(* read; the replies that follow it in the stream are the elements.         *)
(***************************************************************************)

MaxElems == 3
MaxStream == 4

Elems == {1, 2}

Streams == UNION {[1..n -> Elems] : n \in 0..MaxStream}

(* _RESPArrayNamespace, with the future _get_array returns; stream is what   *)
(* follows the count line, rest is what has not been read yet.               *)
NewArray == [n |-> 0, stream |-> <<>>, rest |-> <<>>, pc |-> "idle",
             depth |-> 0, values |-> <<>>, result |-> <<>>]

ArrayStart ==
  ar \in {[NewArray EXCEPT !.n = n, !.stream = s, !.rest = s] :
            n \in 0..MaxElems, s \in Streams}

(* RedisClient._get_array: depth is the count, and a reply is asked for. *)
GetArray ==
  /\ ar.pc = "idle"
  /\ ar' = [ar EXCEPT !.depth = ar.n, !.pc = "reading"]
  /\ UNCHANGED <<hash, rc, ev, pl, clustering, hasOnClose, cl, conns, cmd, loop, env>>

(* _get_array.on_response: the reply is appended and depth decremented; at  *)
(* depth 0 the future is resolved, otherwise another reply is asked for.    *)
ArrayOnResponse ==
  /\ ar.pc = "reading"
  /\ ar.rest # <<>>
  /\ LET values == Append(ar.values, Head(ar.rest))
         depth == ar.depth - 1
     IN ar' = [ar EXCEPT !.values = values, !.depth = depth,
                         !.rest = Tail(ar.rest),
                         !.pc = IF depth = 0 THEN "done" ELSE "reading",
                         !.result = IF depth = 0 THEN values ELSE <<>>]
  /\ UNCHANGED <<hash, rc, ev, pl, clustering, hasOnClose, cl, conns, cmd, loop, env>>

(***************************************************************************)
(* The connection pool of the pooled RedisClient.                           *)
(***************************************************************************)

MaxPool == 2
MaxReqs == 3
PipeLen == 2
MaxPoolFaults == 1

PoolConns == 1..MaxPool
PoolReqs == 1..MaxReqs
PoolKinds == {"cmd", "pipe"}

(* Connection.__init__: no stream, not locked.  made tells whether the      *)
(* object exists yet, tcp is the state of TCPClient.connect, wire holds     *)
(* what was written and is not answered yet, oldest first.                  *)
NewPoolConn == [made |-> FALSE, tcp |-> "idle", stream |-> "none",
                locked |-> FALSE, wire |-> <<>>]

(* A call of _execute1 or pipeline_execute that has not been made yet. *)
NewPoolReq == [kind |-> "cmd", pc |-> "new", conn |-> 0, left |-> 0]

(* RedisClient.__init__: an empty pool.  used lists the connections by      *)
(* Connection._last_command, oldest first; loop holds the callbacks the     *)
(* IOLoop will run, in order.                                               *)
NewPool == [db |-> FALSE, conns |-> [k \in PoolConns |-> NewPoolConn],
            used |-> <<>>, req |-> [r \in PoolReqs |-> NewPoolReq],
            loop |-> <<>>, faults |-> 0]

PoolStart == pl \in {[NewPool EXCEPT !.db = d] : d \in BOOLEAN}

PoolCb(t, r, ok) == [t |-> t, r |-> r, ok |-> ok]

(* Connection.write, read_bytes, read_until: _last_command = time.time(). *)
Touch(used, k) == Append(SelectSeq(used, LAMBDA j : j # k), k)

(* RedisClient._idle_connections: the unlocked connections of the pool,     *)
(* the longest idle first.                                                  *)
IdleConnections == SelectSeq(pl.used, LAMBDA k : ~pl.conns[k].locked)

(* RedisClient._pipeline is set: from pipeline_start until the last reply   *)
(* of the batch has been processed.                                         *)
PipelineSet ==
  \E r \in PoolReqs : pl.req[r].kind = "pipe" /\ pl.req[r].pc \notin {"new", "done"}

PoolRuns(t) == pl.loop # <<>> /\ Head(pl.loop).t = t

PoolRest == <<hash, rc, ev, ar, clustering, hasOnClose, cl, conns, cmd, loop, env>>

(* RedisClient._execute1 or pipeline_execute up to the return of            *)
(* _get_connection: with no idle connection a new one is appended to the    *)
(* pool and connect() is called; otherwise the first idle connection is     *)
(* locked and the future resolved with it.                                  *)
GetConnection(r, kind) ==
  /\ pl.req[r].pc = "new"
  /\ IF r = 1 THEN TRUE ELSE pl.req[r - 1].pc # "new"
  /\ ~PipelineSet
  /\ IF IdleConnections = <<>>
       THEN /\ Len(pl.used) < MaxPool
            /\ LET k == Len(pl.used) + 1
               IN pl' = [pl EXCEPT !.conns[k].made = TRUE,
                                   !.conns[k].tcp = "connecting",
                                   !.used = Append(pl.used, k),
                                   !.req[r] = [kind |-> kind, pc |-> "connecting",
                                               conn |-> k, left |-> 0]]
       ELSE LET k == Head(IdleConnections)
            IN pl' = [pl EXCEPT !.conns[k].locked = TRUE,
                                !.req[r] = [kind |-> kind, pc |-> "handed",
                                            conn |-> k, left |-> 0],
                                !.loop = Append(pl.loop, PoolCb("on_connected", r, TRUE))]
  /\ UNCHANGED PoolRest

(* Connection.connect.on_connect with a stream: _stream is set and the      *)
(* connect future resolved.                                                 *)
PoolTcpUp(k) ==
  /\ pl.conns[k].tcp = "connecting"
  /\ \E r \in PoolReqs :
       /\ pl.req[r].pc = "connecting" /\ pl.req[r].conn = k
       /\ pl' = [pl EXCEPT !.conns[k].tcp = "up", !.conns[k].stream = "open",
                           !.loop = Append(pl.loop, PoolCb("on_connect", r, TRUE))]
  /\ UNCHANGED PoolRest

(* Connection.connect.on_connect with an exception: ConnectError. *)
PoolTcpFail(k) ==
  /\ pl.conns[k].tcp = "connecting"
  /\ pl.faults < MaxPoolFaults
  /\ \E r \in PoolReqs :
       /\ pl.req[r].pc = "connecting" /\ pl.req[r].conn = k
       /\ pl' = [pl EXCEPT !.conns[k].tcp = "failed", !.faults = pl.faults + 1,
                           !.loop = Append(pl.loop, PoolCb("on_connect", r, FALSE))]
  /\ UNCHANGED PoolRest

(* _get_connection.on_connect: ConnectError on the future, or conn.lock()   *)
(* (Connection.lock raises ValueError when already locked) and then either  *)
(* SELECT through _execute_command or the future resolved with conn.        *)
PoolOnConnect ==
  /\ PoolRuns("on_connect")
  /\ LET r == Head(pl.loop).r
         k == pl.req[r].conn
         rest == Tail(pl.loop)
     IN IF ~Head(pl.loop).ok
          THEN pl' = [pl EXCEPT !.loop = rest, !.req[r].pc = "connecterr"]
          ELSE IF pl.conns[k].locked
            THEN pl' = [pl EXCEPT !.loop = rest, !.req[r].pc = "lockraised"]
            ELSE IF pl.db
              THEN pl' = [pl EXCEPT !.loop = rest, !.conns[k].locked = TRUE,
                                    !.conns[k].wire = Append(@, [r |-> r, sel |-> TRUE]),
                                    !.used = Touch(@, k),
                                    !.req[r].pc = "selecting"]
              ELSE pl' = [pl EXCEPT !.loop = Append(rest, PoolCb("on_connected", r, TRUE)),
                                    !.conns[k].locked = TRUE,
                                    !.req[r].pc = "handed"]
  /\ UNCHANGED PoolRest

(* _execute1.on_connected / pipeline_execute.on_connected: the command or   *)
(* the joined batch is written with conn.write, which raises                *)
(* AttributeError while Connection._stream is None.                         *)
PoolOnConnected ==
  /\ PoolRuns("on_connected")
  /\ LET r == Head(pl.loop).r
         k == pl.req[r].conn
         n == IF pl.req[r].kind = "pipe" THEN PipeLen ELSE 1
         rest == Tail(pl.loop)
     IN IF pl.conns[k].stream = "none"
          THEN pl' = [pl EXCEPT !.loop = rest, !.req[r].pc = "writeraised"]
          ELSE pl' = [pl EXCEPT !.loop = rest,
                                !.conns[k].wire = @ \o [j \in 1..n |-> [r |-> r, sel |-> FALSE]],
                                !.used = Touch(@, k),
                                !.req[r].pc = "written", !.req[r].left = n]
  /\ UNCHANGED PoolRest

(* _get_response: the oldest unanswered request on the connection is        *)
(* answered and the future of the reply resolved.                           *)
PoolReply(k) ==
  /\ pl.conns[k].wire # <<>>
  /\ LET e == Head(pl.conns[k].wire)
     IN pl' = [pl EXCEPT !.conns[k].wire = Tail(@), !.used = Touch(@, k),
                         !.loop = Append(pl.loop, PoolCb("on_response", e.r, e.sel))]
  /\ UNCHANGED PoolRest

(* The reply callbacks.  _execute_command.on_response releases the          *)
(* connection, for SELECT (then on_selected resolves the future with conn)  *)
(* as for a command; _pipeline_execute.on_response reads on until it has a  *)
(* reply for each command, then pipeline_execute.on_complete releases.      *)
PoolOnResponse ==
  /\ PoolRuns("on_response")
  /\ LET r == Head(pl.loop).r
         k == pl.req[r].conn
         rest == Tail(pl.loop)
     IN IF Head(pl.loop).ok
          THEN pl' = [pl EXCEPT !.loop = Append(rest, PoolCb("on_connected", r, TRUE)),
                                !.conns[k].locked = FALSE,
                                !.req[r].pc = "handed"]
          ELSE IF pl.req[r].left > 1
            THEN pl' = [pl EXCEPT !.loop = rest, !.req[r].left = @ - 1]
            ELSE pl' = [pl EXCEPT !.loop = rest, !.conns[k].locked = FALSE,
                                  !.req[r].left = 0, !.req[r].pc = "done"]
  /\ UNCHANGED PoolRest


SingleInit ==
  clustering = FALSE /\ EngineInit /\ hash = NewHash /\ PoolIdle /\ ev = NewEval
  /\ ar = NewArray /\ pl = NewPool

ClusterInit ==
  clustering = TRUE /\ EngineInit /\ hash = NewHash /\ PoolIdle /\ ev = NewEval
  /\ ar = NewArray /\ pl = NewPool

HashInit == HashStart /\ EngineIdle /\ PoolIdle /\ ev = NewEval
  /\ ar = NewArray /\ pl = NewPool

PoolInit == PoolIdle /\ EngineIdle /\ hash = NewHash /\ ev = NewEval
  /\ ar = NewArray /\ pl = NewPool

EvalInit == EvalStart /\ EngineIdle /\ PoolIdle /\ hash = NewHash
  /\ ar = NewArray /\ pl = NewPool

ArrayInit ==
  ArrayStart /\ EngineIdle /\ PoolIdle /\ hash = NewHash /\ ev = NewEval
  /\ pl = NewPool

ConnsInit ==
  PoolStart /\ EngineIdle /\ PoolIdle /\ hash = NewHash /\ ev = NewEval
  /\ ar = NewArray

SingleNext ==
  \/ Connect
  \/ \E k \in ConnIds : TcpUp(k)
  \/ \E k \in ConnIds : TcpFail(k)
  \/ StreamConnected
  \/ ClientOnConnectFailed
  \/ SingleOnConnected
  \/ ExecOnConnected
  \/ \E c \in Callers, key \in {KeyB, BadValue} : Execute(c, key)
  \/ EvWaiterAcquire
  \/ OnLocked
  \/ OnWritten
  \/ \E k \in ConnIds : ReplyOk(k)
  \/ \E k \in ConnIds : ReplyErr(k)
  \/ \E k \in ConnIds : ReplyReadOnly(k)
  \/ \E k \in ConnIds, m \in 0 .. NumNodes : ReplyInfo(k, m)
  \/ ReadOk
  \/ ReadErr
  \/ ReadOnlySingle
  \/ ReadInfo
  \/ OnSelected
  \/ OnReplicationInfo
  \/ RetryAfterFailover
  \/ Release
  \/ \E k \in ConnIds : RemoteClose(k)
  \/ ConnOnClosed
  \/ Close
  \/ CloseNotConnected

ClusterNext ==
  \/ Connect
  \/ \E k \in ConnIds : TcpUp(k)
  \/ \E k \in ConnIds : TcpFail(k)
  \/ StreamConnected
  \/ ClientOnConnectFailed
  \/ ClusterOnConnected
  \/ ExecOnConnected
  \/ \E c \in Callers, key \in Keys \cup {NoKey} : Execute(c, key)
  \/ EvWaiterAcquire
  \/ OnLocked
  \/ OnWritten
  \/ \E k \in ConnIds : ReplyOk(k)
  \/ \E k \in ConnIds : ReplyErr(k)
  \/ \E k \in ConnIds, m \in Nodes : ReplyMoved(k, m)
  \/ \E k \in ConnIds : ReplyReadOnly(k)
  \/ \E k \in ConnIds, t \in 1 .. Len(Topologies) : ReplyNodes(k, t)
  \/ ReadOk
  \/ ReadErr
  \/ ReadMoved
  \/ ReadOnlyCluster
  \/ ReadNodes
  \/ Release
  \/ OnClusterDiscovery
  \/ \E k \in ConnIds : RemoteClose(k)
  \/ ConnOnClosed
  \/ Close
  \/ CloseNotConnected

HashNext == Crc16Step \/ PickSlotStep

EvalNext == EvalStep

ArrayNext == GetArray \/ ArrayOnResponse

ConnsNext ==
  \/ \E r \in PoolReqs, kind \in PoolKinds : GetConnection(r, kind)
  \/ \E k \in PoolConns : PoolTcpUp(k)
  \/ \E k \in PoolConns : PoolTcpFail(k)
  \/ PoolOnConnect
  \/ PoolOnConnected
  \/ \E k \in PoolConns : PoolReply(k)
  \/ PoolOnResponse

PoolNext ==
  \/ PipelineStart
  \/ \E p \in Processors : PipelineCommand(p)
  \/ PipelineExecute
  \/ \E ok \in BOOLEAN : PipelineOnConnected(ok)
  \/ PipelineOnWritten
  \/ \E kind \in {"ok", "err"} : PipelineOnResponse(kind)

(* Client in single-node mode. *)
SpecSingle == SingleInit /\ [][SingleNext]_vars

(* Client in cluster mode. *)
SpecCluster == ClusterInit /\ [][ClusterNext]_vars

(* The IOLoop runs every callback and handles every socket event it has. *)
SpecSingleFair == SpecSingle /\ WF_vars(SingleNext)

(* crc16 and the slot of a key. *)
SpecHash == HashInit /\ [][HashNext]_vars

(* The pipeline of the pooled RedisClient. *)
SpecPool == PoolInit /\ [][PoolNext]_vars

(* The result of a command for one reply. *)
SpecEval == EvalInit /\ [][EvalNext]_vars

(* An array reply read from the stream. *)
SpecArray == ArrayInit /\ [][ArrayNext]_vars

(* The connection pool of the pooled RedisClient. *)
SpecConns == ConnsInit /\ [][ConnsNext]_vars

(***************************************************************************)
(* The properties.                                                         *)
(***************************************************************************)
Last(seq) == seq[Len(seq)]

(* The slot Redis Cluster assigns to a key: CRC16 of the raw key bytes. *)
KeySlot(key) == Crc16(key) % HASH_SLOTS

(* C1: two commands are never awaiting a reply on the same connection: a   *)
(* command's bytes are written to a connection only when no request        *)
(* written to it before is still unanswered.                               *)
C1_SingleFlight == \A k \in ConnIds : Len(conns[k].wire) <= 1

(* C2: a pipeline_execute that completes returns one result for each       *)
(* command enqueued when it was called, the k-th being the reply to the    *)
(* k-th command, an error as it is and a value through that command's      *)
(* processor.                                                              *)
C2_PipelineResults ==
  rc.phase = "done" =>
    /\ Len(rc.result) = Len(rc.batch)
    /\ \A j \in 1 .. Len(rc.result) :
         /\ j <= Len(rc.batch)
         /\ rc.result[j].of = rc.batch[j].id
         /\ rc.result[j].how = IF rc.replies[j] = "err" THEN "error"
                               ELSE rc.batch[j].proc

(* C3: a call is re-dispatched on MOVED at most once. *)
C3_OneRedispatch == \A i \in Callers : cmd[i].moves <= 1

(* C4: a MOVED reply that names a node with a connection in the table      *)
(* binds the command to that connection and, the connection being up,      *)
(* writes it there; a command that was moved and resolved with a reply has *)
(* the reply of the node the last MOVED named, never the MOVED error.      *)
C4_MovedRedispatch ==
  [][\A i \in Callers :
       /\ cmd'[i].moves = cmd[i].moves + 1 =>
            LET x == cl.cluster[cmd'[i].moved]
            IN /\ x # 0
               /\ cmd'[i].conn = x
               /\ conns[x].connected /\ conns[x].sock = "open" =>
                    /\ cmd'[i].pc = "written"
                    /\ conns'[x].wire # <<>> /\ Last(conns'[x].wire) = i
                    /\ Last(cmd'[i].writes) = x
       /\ cmd'[i].moves > 0 /\ cmd'[i].res.t \in {"ok", "RedisError"} =>
            cmd'[i].res.n = cmd'[i].moved]_vars

C4_Witness ==
  \E i \in Callers :
    /\ cmd[i].pc = "released"
    /\ cmd[i].moves = 1
    /\ cmd[i].res = [t |-> "ok", n |-> cmd[i].moved]
    /\ Len(cmd[i].writes) = 2
    /\ cmd[i].writes[1] # cmd[i].writes[2]
    /\ conns[cmd[i].writes[2]].host = cmd[i].moved

(* C5: a failover makes Client._connection a connection to the master the  *)
(* INFO REPLICATION reply named, with the database of the connection it    *)
(* replaces, and a request is only ever written to Client._connection.     *)
C5_FailoverTarget ==
  [][/\ cl.connection # 0 /\ cl'.connection # cl.connection =>
          /\ cl'.retry \in Callers
          /\ cmd[InfoOf(cl'.retry)].res.t = "info"
          /\ conns'[cl'.connection].host = cmd[InfoOf(cl'.retry)].res.n
          /\ conns'[cl'.connection].host # 0
          /\ conns'[cl'.connection].db = conns[cl.connection].db
     /\ \A k \in ConnIds :
          Len(conns'[k].wire) > Len(conns[k].wire) => k = cl'.connection]_vars

C5_Witness ==
  \E i \in Callers :
    /\ cl.connection = 2
    /\ conns[2].host = 2 /\ conns[2].db = HostDb
    /\ conns[1].host = SeedNode /\ conns[1].closes = 1
    /\ cmd[InfoOf(i)].res = [t |-> "info", n |-> 2]
    /\ cmd[i].writes = <<1, 2>>
    /\ cmd[i].res = [t |-> "ok", n |-> 2]

(* C6: a command that is granted the execution lock eventually releases    *)
(* it.                                                                     *)
C6_LockReleased ==
  \A i \in Callers : [](cmd[i].pc = "granted" => <>(cmd[i].pc = "released"))

(* C7: a command whose connection the far end closes while it awaits its   *)
(* reply has its future resolved with ConnectionError.                     *)
C7_CloseResolves ==
  \A i \in Callers : [](cmd[i].pc = "lost" => <>(cmd[i].res.t = "ConnectionError"))

(* C8: the slot node selection computes for a key is CRC16 of the key's    *)
(* raw bytes modulo 16384.                                                 *)
C8_SlotOfRawKey == hash.slot # NoSlot => hash.slot = KeySlot(hash.input)

(* C9: crc16 is CRC-16 with polynomial 0x1021, initial register 0, most    *)
(* significant bit first: '123456789' gives 0x31c3 and E2 9C 88 gives      *)
(* 0x8357; every checksum is within 0..65535 and its slot within 0..16383. *)
C9_Crc16 ==
  /\ hash.crc \in 0 .. Crc16Mask
  /\ (hash.crc % HASH_SLOTS) \in 0 .. (HASH_SLOTS - 1)
  /\ hash.pos = Len(hash.input) =>
       /\ hash.crc = Crc16(hash.input)
       /\ hash.input = Digits => hash.crc = CrcOfDigits
       /\ hash.input = Airplane => hash.crc = CrcOfAirplane

C9_Witness ==
  /\ hash.input = Digits
  /\ hash.pos = Len(Digits)
  /\ hash.crc = CrcOfDigits

(* C10: a command is dispatched to the connection of a node that owns the  *)
(* slot of its key, and to the connection of some known node when no known *)
(* node owns it.                                                           *)
C10_RouteToOwner ==
  [][\A i \in Callers :
       cmd[i].pc = "granted" /\ cmd'[i].pc \notin {"granted", "aborted"} =>
         IF Owners(KeySlot(cmd[i].key)) # {}
           THEN cmd'[i].conn \in {cl.cluster[n] : n \in Owners(KeySlot(cmd[i].key))}
           ELSE cmd'[i].conn \in {cl.cluster[n] : n \in Known}]_vars

(* The discovery reply has been processed and every node it lists has a    *)
(* connection in the table that is connected.                              *)
AllListedUp ==
  /\ cl.discovery
  /\ cmd[NodesId].res.t = "nodes"
  /\ \A n \in Nodes :
       Topologies[cmd[NodesId].res.n][n].listed =>
         cl.cluster[n] # 0 /\ conns[cl.cluster[n]].connected

(* C11: in cluster mode the client is ready, its connect future resolved   *)
(* and a caller's command dispatched only when the discovery reply has     *)
(* been processed and every node it lists has a connected connection in    *)
(* the table.                                                              *)
C11_ClusterReady ==
  [][/\ Ready => AllListedUp
     /\ cl.connectFuture # "ok" /\ cl'.connectFuture = "ok" => AllListedUp'
     /\ \A i \in Callers :
          cmd[i].writes = <<>> /\ cmd'[i].writes # <<>> => AllListedUp]_vars

(* C12: pipeline_execute on an empty batch fails with ValueError, asks for  *)
(* no connection and writes nothing.                                       *)
C12_EmptyPipeline ==
  [][rc'.executes = rc.executes + 1 /\ rc.pipelineCommands = <<>> =>
       /\ rc'.error = "ValueError"
       /\ rc'.phase = rc.phase
       /\ rc'.sent = rc.sent
       /\ rc'.replies = rc.replies]_vars

C12_Witness ==
  /\ rc.executes = 1
  /\ rc.error = "ValueError"
  /\ rc.phase = "idle"
  /\ rc.pipeline /\ rc.pipelineCommands = <<>>
  /\ rc.sent = <<>>

(* C13: pipeline_start while a pipeline is already active fails with an    *)
(* error and leaves the batch as it is.                                    *)
C13_NoNesting ==
  [][rc'.starts = rc.starts + 1 /\ rc.pipeline =>
       /\ rc'.error # "none"
       /\ rc'.pipelineCommands = rc.pipelineCommands]_vars

C15_PipelineCleared ==
  [][/\ rc.phase # "done" /\ rc'.phase = "done" =>
          /\ ~rc'.pipeline
          /\ rc'.pipelineCommands = <<>>
          /\ \A j \in 1 .. Len(rc'.result) : rc'.result[j].of > rc.batchMark
     /\ rc'.issued = rc.issued + 1 /\ ~rc.pipeline =>
          /\ rc'.direct = Append(rc.direct, rc'.issued)
          /\ rc'.pipelineCommands = rc.pipelineCommands]_vars

C15_Witness ==
  /\ rc.phase = "done"
  /\ rc.executes = 2
  /\ rc.batchMark = 2
  /\ rc.direct = <<2>>
  /\ rc.result = <<[of |-> 3, how |-> "none"]>>
  /\ ~rc.pipeline /\ rc.pipelineCommands = <<>>

(* C16: for a reply that is not an error the result is the transform of   *)
(* the reply when a transform is set; else, when an expectation e is set,  *)
(* the boolean (reply = e), except that for an integer e above 1 it is     *)
(* True when the reply is e and the reply itself when not (an expectation  *)
(* of 3 and a reply of 2 give 2); else the reply unchanged.                *)
C16_Result ==
  ev.done =>
    /\ ev.xf # "none" => ev.result = Transformed(ev.r)
    /\ ev.xf = "none" /\ ev.e = NoExpectation => ev.result = Raw(ev.r)
    /\ ev.xf = "none" /\ ev.e # NoExpectation /\ ev.e <= 1 =>
         ev.result = Boolean(ev.r = ev.e)
    /\ ev.xf = "none" /\ ev.e > 1 /\ ev.r = ev.e => ev.result = Boolean(TRUE)
    /\ ev.xf = "none" /\ ev.e > 1 /\ ev.r # ev.e => ev.result = Raw(ev.r)
    /\ ev.xf = "none" /\ ev.e = 3 /\ ev.r = 2 => ev.result = <<"raw", 2>>

C16_Witness ==
  /\ ev.done
  /\ ev.xf = "none" /\ ev.e = 3 /\ ev.r = 2
  /\ ev.result = <<"raw", 2>>

(* C17: an error reply that is neither MOVED nor READONLY resolves the      *)
(* caller's future with a RedisError carrying the reply of the node that   *)
(* answered; the command is not written again, and the connections, the    *)
(* table and Client._connection stay as they are; only the release of the  *)
(* lock is scheduled.                                                      *)
C17_ErrorReply ==
  [][\A i \in Callers :
       /\ Runs("data")
       /\ Head(loop).i = i
       /\ Head(loop).r = "err"
       /\ cmd'[i].pc # cmd[i].pc
       => /\ cmd'[i].res = [t |-> "RedisError", n |-> conns[Head(loop).k].host]
          /\ cmd'[i].writes = cmd[i].writes
          /\ cmd'[i].conn = cmd[i].conn
          /\ conns' = conns
          /\ cl'.cluster = cl.cluster
          /\ cl'.connection = cl.connection
          /\ loop' = Append(Tail(loop), Cb("release", 0, i, "", 0))]_vars

C17_Witness ==
  /\ cmd[1].pc = "released" /\ cmd[1].res.t = "RedisError"
  /\ cmd[2].pc = "released" /\ cmd[2].res.t = "ok"
  /\ cmd[1].writes = cmd[2].writes
  /\ Len(cmd[1].writes) = 1
  /\ conns[cmd[1].conn].closes = 0 /\ conns[cmd[1].conn].sock = "open"

(* C18: outside cluster mode a command issued after the connection has     *)
(* been closed, by the far end or by close(), fails with ConnectionError.  *)
C18_FailsAfterClose ==
  \A i \in Callers : [](cmd[i].late => <>(cmd[i].res.t = "ConnectionError"))

(* The transport connection to the configured host could not be            *)
(* established: connect() was called, the TCP connect of its connection    *)
(* has ended in the one fault there was, and no stream was ever kept.      *)
ConnectFailed ==
  /\ env.connectCalled
  /\ env.faults > 0
  /\ cl.connection = 0
  /\ conns[1].tcp = "idle"
  /\ conns[1].sock = "none"
  /\ conns[1].how = ""

(* C19: when the transport connection cannot be established the connect    *)
(* future fails, and a command issued on the client fails with             *)
(* ConnectError.                                                           *)
C19_ConnectFails ==
  /\ [](ConnectFailed => <>(cl.connectFuture = "err"))
  /\ \A i \in Callers :
       [](ConnectFailed /\ cmd[i].pc # "new" => <>(cmd[i].res.t = "ConnectError"))

(* C20: once the SELECT issued on connect has been rejected and            *)
(* on_selected has failed the connect future, the client is neither ready  *)
(* nor declared connected while that connection is up, and no caller's     *)
(* command is written to the connection.                                   *)
C20_SelectRejected ==
  \A k \in ConnIds :
    /\ cl.connection = k
    /\ cmd[SelOf(k)].res.t = "RedisError"
    /\ cl.connectFuture = "err"
    /\ conns[k].closes = 0
    => /\ ~Ready
       /\ ~cl.connectedEv
       /\ \A i \in Callers : \A j \in 1 .. Len(cmd[i].writes) : cmd[i].writes[j] # k

(* No connection of the client has ever had a stream. *)
NeverConnected ==
  \A k \in ConnIds :
    conns[k].sock = "none" /\ conns[k].how = "" /\ ~conns[k].connected

(* A call of Client.close() is made in this step. *)
CloseCalled ==
  env'.closeCalls # env.closeCalls \/ env'.closeRaised # env.closeRaised

(* C21: close() on a client that was never connected raises                *)
(* ConnectionError and changes nothing of the client, its connections, the *)
(* commands and the IOLoop.                                                *)
C21_CloseUnopened ==
  [][NeverConnected /\ CloseCalled
       => /\ env'.closeRaised = env.closeRaised + 1
          /\ env'.closeCalls = env.closeCalls
          /\ cl' = cl
          /\ conns' = conns
          /\ cmd' = cmd
          /\ loop' = loop]_vars

C21_Witness == NeverConnected /\ env.closeRaised = 1 /\ ~cl.closing

(* A first close() has completed: it closed every connection it had to and *)
(* their close callbacks have run.                                         *)
ClosedDone ==
  /\ env.closeCalls > 0
  /\ Targets # {}
  /\ \A k \in Targets : conns[k].sock = "none" /\ conns[k].how = "closed"

(* C22: a call of close() made after a first close() has completed does    *)
(* not raise and leaves every connection closed.                           *)
C22_CloseTwice ==
  [][ClosedDone /\ CloseCalled
       => /\ env'.closeRaised = env.closeRaised
          /\ \A k \in Targets : conns'[k].sock = "none"]_vars

(* C23: when the close callback of a stream the far end closed runs on a   *)
(* client that has an on_close callback and on which close() was not       *)
(* called, the on_close callback is invoked once.                          *)
C23_OnCloseInvoked ==
  [][/\ Runs("closed")
     /\ loop' = Tail(loop)
     /\ hasOnClose
     /\ conns[Head(loop).k].how = "lost"
     /\ env.closeCalls = 0
     => env'.onCloseCalls = env.onCloseCalls + 1]_vars

(* C24: a connection is connected exactly when it has a stream.            *)
C24_ConnectedIffSocket ==
  \A k \in ConnIds :
    conns[k].host # 0 => (conns[k].connected <=> conns[k].sock # "none")

(* The replication-status query of the failover of command i has failed,   *)
(* or its reply names no master.                                           *)
InfoFailed(i) ==
  /\ cmd[i].pc = "failover"
  /\ cmd[InfoOf(i)].pc = "done"
  /\ cmd[InfoOf(i)].res.t # "info" \/ cmd[InfoOf(i)].res.n = 0

(* C25: when the replication-status query of a failover fails or names no  *)
(* master, the future of the original command is resolved with a           *)
(* ConnectError and the lock is released.                                  *)
C25_FailoverFails ==
  \A i \in Callers :
    [](InfoFailed(i) => <>(cmd[i].res.t = "ConnectError" /\ cmd[i].pc = "released"))

(* Command i was issued and still waits to be written for the first time:  *)
(* on the event, for the lock, or for on_locked to run.                    *)
Waiting(i) == cmd[i].pc \in {"evwait", "acq", "lockwait", "granted"}

(* C26: callers' commands are written in the order they were issued (the   *)
(* callers issue them in the order of their numbers): none is written      *)
(* while one issued before it still waits to be written.                   *)
C26_IssueOrder ==
  \A i, j \in Callers :
    i < j /\ cmd[j].writes # <<>> => ~Waiting(i)

(* Command i has been written and its future is not resolved. *)
InFlight(i) == cmd[i].writes # <<>> /\ cmd[i].res.t = "none"

C28_RetryAfterSelect ==
  [][\A i \in Callers :
       /\ cmd[i].pc \in {"retry", "tcp"}
       /\ cmd'[i].writes # cmd[i].writes
       => /\ Len(cmd'[i].writes) = Len(cmd[i].writes) + 1
          /\ Last(cmd'[i].writes) = cl.connection
          /\ cmd[SelOf(cl.connection)].res.t = "ok"]_vars

(* The step that handles a READONLY reply read for command i on an open    *)
(* connection writes INFO REPLICATION to that connection.                  *)
QueryOnReadOnly ==
  \A i \in Callers :
    /\ Runs("data")
    /\ Head(loop).r = "readonly"
    /\ Head(loop).i = i
    /\ cmd'[i].pc # cmd[i].pc
    /\ conns[Head(loop).k].sock = "open"
    => cmd'[InfoOf(i)].writes = <<Head(loop).k>>

(* The client itself closes a connection only in the failover of a command *)
(* that this connection answered READONLY, after INFO REPLICATION was      *)
(* written to this connection and its reply read; it closes it once, and   *)
(* the connection to the master named is created after the close, in the   *)
(* same callback.                                                          *)
CloseAfterQuery ==
  \A k \in ConnIds :
    conns'[k].closes # conns[k].closes /\ env'.closeCalls = env.closeCalls
    => \E i \in Callers :
         /\ cmd[i].pc = "failover"
         /\ Last(cmd[i].writes) = k
         /\ cmd[InfoOf(i)].writes = <<k>>
         /\ cmd[InfoOf(i)].res.t = "info"
         /\ conns'[k].closes = conns[k].closes + 1
         /\ env.closeCalls = 0 => conns[k].closes = 0
         /\ conns'[k].sock # "open"
         /\ cmd[InfoOf(i)].res.n # 0
              => /\ cl'.connection # k
                 /\ conns[cl'.connection].host = 0
                 /\ conns'[cl'.connection].host = cmd[InfoOf(i)].res.n
                 /\ conns'[cl'.connection].tcp = "client"

(* C29: on a READONLY reply the replication-status query is written to the *)
(* connection that answered, and that connection is closed, once, only     *)
(* after the reply to the query has been read and before the connection to *)
(* the master is created.                                                  *)
C29_FailoverOrder == [][QueryOnReadOnly /\ CloseAfterQuery]_vars

(* C30: the step that handles a MOVED reply naming a node without a        *)
(* connection in the table gives the node a connection in the table and    *)
(* executes the command on it.                                             *)
C30_MovedToUnknown ==
  [][\A i \in Callers :
       /\ Runs("data")
       /\ Head(loop).r = "moved"
       /\ Head(loop).i = i
       /\ cl.cluster[Head(loop).m] = 0
       /\ cmd'[i] # cmd[i]
       => /\ cl'.cluster[Head(loop).m] # 0
          /\ cmd'[i].conn = cl'.cluster[Head(loop).m]
          /\ cmd'[i].pc \in {"tcp", "written"}]_vars

(* C31: in cluster mode the step that handles a READONLY reply read on a   *)
(* connection marks that connection read-only.                             *)
C31_MarkedReadOnly ==
  [][/\ clustering
     /\ Runs("data")
     /\ Head(loop).r = "readonly"
     /\ cmd'[Head(loop).i] # cmd[Head(loop).i]
     => conns'[Head(loop).k].readOnly]_vars

(* C33: outside cluster mode, while the SELECT written on                  *)
(* Client._connection has no reply processed, the client is not ready and  *)
(* no caller's command has been written to the connection.                 *)
C33_ReadyAfterSelect ==
  \A k \in ConnIds :
    /\ ~clustering
    /\ cl.connection = k
    /\ conns[k].sock = "open"
    /\ cmd[SelOf(k)].writes = <<k>>
    /\ cmd[SelOf(k)].res.t = "none"
    => /\ ~Ready
       /\ \A i \in Callers : \A j \in 1 .. Len(cmd[i].writes) : cmd[i].writes[j] # k

(* C37: a command call made while pipeline_execute is reading replies      *)
(* leaves the batch as it is, and the step that completes pipeline_execute *)
(* gives as many results as commands were enqueued when it was called.     *)
C37_BatchInFlight ==
  [][/\ rc.phase = "reading" /\ rc'.issued # rc.issued
          => rc'.pipelineCommands = rc.pipelineCommands
     /\ rc.phase = "reading" /\ rc'.phase = "done"
          => Len(rc'.result) = Len(rc.batch)]_vars

(* The client has been connected, command i was issued and is not written  *)
(* yet, and the connection of the node its key is routed to was closed by  *)
(* the far end and is down.                                                *)
RoutedToClosed(i) ==
  /\ clustering
  /\ cl.discovery
  /\ cl.connectFuture = "ok"
  /\ Known # {}
  /\ cmd[i].pc # "new"
  /\ cmd[i].writes = <<>>
  /\ cmd[i].res.t = "none"
  /\ conns[PickClusterHost(cmd[i].key)].how = "lost"
  /\ ~conns[PickClusterHost(cmd[i].key)].connected

(* Nothing is in progress: the IOLoop has no callback, no TCP connect is   *)
(* under way and no connection has a reply to deliver.                     *)
NothingPending ==
  /\ loop = <<>>
  /\ \A k \in ConnIds : conns[k].tcp = "idle" /\ ~CanReply(k)

(* C34: in cluster mode a command routed to a node whose connection has    *)
(* been closed is never left waiting with nothing in progress that could   *)
(* connect the connection again or carry the command on.                   *)
C34_LazyReconnect ==
  \A i \in Callers : RoutedToClosed(i) => ~NothingPending

(* C40: in cluster mode, once the discovery reply has been processed,      *)
(* every connection of the table is connected, nothing has failed and      *)
(* nothing is in progress any more, connect() has resolved and the client  *)
(* is declared connected.                                                  *)
C40_ConnectResolves ==
  /\ clustering
  /\ cl.discovery
  /\ Ready
  /\ NothingPending
  /\ env.faults = 0
  /\ env.closeCalls = 0
  => cl.connectFuture = "ok" /\ cl.connectedEv

(* C39: in cluster mode the step of on_locked for a command without a key, *)
(* the client being ready, executes the command on the connection of a     *)
(* node of the table.                                                      *)
C39_KeylessDispatch ==
  [][\A i \in Callers :
       /\ clustering
       /\ Runs("locked")
       /\ Head(loop).i = i
       /\ cmd[i].key = NoKey
       /\ Ready
       /\ cmd'[i] # cmd[i]
       => /\ cmd'[i].pc \in {"written", "tcp", "done"}
          /\ \E n \in Known : cmd'[i].conn = cl.cluster[n]]_vars

(* C35: the call of _execute with a value of an unsupported type fails the *)
(* returned future with the encoder's error and changes nothing else: the  *)
(* lock and its waiters, the event's waiters, the IOLoop, the connections  *)
(* and the other commands are as before.                                   *)
C35_EncodingError ==
  [][\A i \in Callers :
       cmd[i].pc = "new" /\ cmd'[i].pc # "new" /\ cmd'[i].key = BadValue
       => /\ cmd'[i].res.t = "ValueError"
          /\ cmd'[i].writes = <<>>
          /\ cl' = cl
          /\ loop' = loop
          /\ conns' = conns
          /\ \A j \in Ids \ {i} : cmd'[j] = cmd[j]]_vars

C35_Witness ==
  /\ cmd[1].key = BadValue /\ cmd[1].res.t = "ValueError"
  /\ cmd[2].pc = "released" /\ cmd[2].res.t = "ok"
  /\ ~cl.locked


(* C36: decoding an array reply of count N reads exactly N element replies  *)
(* and returns them in order as a list of length N; for N = 0 it returns    *)
(* the empty list without reading a further reply.                          *)
C36_ArrayDecoded ==
  ar.pc # "idle" =>
    /\ Len(ar.stream) - Len(ar.rest) <= ar.n
    /\ ar.pc = "done" =>
         /\ ar.result = SubSeq(ar.stream, 1, ar.n)
         /\ Len(ar.stream) - Len(ar.rest) = ar.n
    /\ ar.n = 0 => ar.pc = "done" /\ ar.result = <<>>

(* The call r uses connection k: from conn.lock() for it until the release. *)
Holds(r, k) ==
  pl.req[r].conn = k /\ pl.req[r].pc \in {"selecting", "handed", "written"}

(* C38: a connection handed out by _get_connection is connected and not in  *)
(* use by another command, and lock() is never called on a locked           *)
(* connection.                                                              *)
C38_HandedOut ==
  \A r \in PoolReqs :
    /\ pl.req[r].pc # "lockraised"
    /\ pl.req[r].pc = "handed" =>
         /\ pl.conns[pl.req[r].conn].stream = "open"
         /\ \A q \in PoolReqs \ {r} : ~Holds(q, pl.req[r].conn)

(* The batch of the pipeline call r is written and not fully answered. *)
BatchInFlight(r) == pl.req[r].kind = "pipe" /\ pl.req[r].pc = "written"

(* C32: while a batch is in flight on a connection the connection is        *)
(* locked, and nothing of another command was written to it after the       *)
(* batch.                                                                   *)
C32_LockedForBatch ==
  \A r \in PoolReqs :
    BatchInFlight(r) =>
      LET wire == pl.conns[pl.req[r].conn].wire
      IN /\ pl.conns[pl.req[r].conn].locked
         /\ \A i, j \in 1..Len(wire) :
              i < j /\ wire[i].r = r /\ ~wire[i].sel => wire[j].r = r

====
